---- MODULE Spec2Model ----
(* Model of bybit_api.py: the BybitClient facade over the pybit HTTP      *)
(* session, and the parse_crypto_symbol helper.                            *)
(*                                                                         *)
(* Python values are encoded as follows.  A dict is a function from key    *)
(* strings to values, a list is a sequence.  A str that carries a number   *)
(* or an alert text is a sequence of one-character strings, so that        *)
(* float(), str() and the regular expressions work on characters.  A       *)
(* float is an integer number of tenths (0.5 is 5, 2.0 is 20).  A value    *)
(* returned to a caller is tagged with its Python type.                    *)
EXTENDS Integers, Sequences, FiniteSets, TLC

(***************************************************************************)
(* Bounds                                                                  *)
(***************************************************************************)
\* longest position list the exchange returns
MaxPositions == 2
\* most pieces an alert text is assembled from
MaxPieces == 3

(***************************************************************************)
(* Python values                                                           *)
(***************************************************************************)
NoneVal == [ty |-> "None"]
PyFloat(v) == [ty |-> "float", v |-> v]
PyDict(d) == [ty |-> "dict", d |-> d]
PyList(l) == [ty |-> "list", l |-> l]
EmptyDict == <<>>

\* dict.get(key, default)
Get(d, k, default) == IF k \in DOMAIN d THEN d[k] ELSE default

\* truth value of an Optional[float] argument: None and 0.0 are false
Truthy(x) == x.ty = "float" /\ x.v # 0

\* outcome of evaluating a call: a returned value or a raised exception
Return(v) == [kind |-> "return", val |-> v]
Raise(e) == [kind |-> "raise", exc |-> e]
Pending == [kind |-> "pending"]

\* str(e) of an exception
StrExc(e) == e.msg

Abs(n) == IF n < 0 THEN -n ELSE n

(***************************************************************************)
(* float(str) and str(float), on tenths                                    *)
(***************************************************************************)
Digits == <<"0", "1", "2", "3", "4", "5", "6", "7", "8", "9">>

IsDigit(ch) == \E i \in 1..10 : Digits[i] = ch

DigitVal(ch) == (CHOOSE i \in 1..10 : Digits[i] = ch) - 1

RECURSIVE DigitsToInt(_)
DigitsToInt(s) ==
  IF s = <<>> THEN 0
  ELSE 10 * DigitsToInt(SubSeq(s, 1, Len(s) - 1)) + DigitVal(s[Len(s)])

RECURSIVE IntToDigits(_)
IntToDigits(n) ==
  IF n < 10 THEN <<Digits[n + 1]>>
  ELSE IntToDigits(n \div 10) \o <<Digits[(n % 10) + 1]>>

\* float(s) for a str s: an optional sign, digits, at most one point and at
\* most one digit after it; anything else raises ValueError
ParseFloat(s) ==
  LET neg == s # <<>> /\ s[1] = "-"
      body == IF s # <<>> /\ s[1] \in {"-", "+"} THEN Tail(s) ELSE s
      dots == {i \in 1..Len(body) : body[i] = "."}
      ip == IF dots = {} THEN body
            ELSE SubSeq(body, 1, (CHOOSE i \in dots : TRUE) - 1)
      fp == IF dots = {} THEN <<>>
            ELSE SubSeq(body, (CHOOSE i \in dots : TRUE) + 1, Len(body))
      wellFormed == /\ Cardinality(dots) <= 1
                    /\ Len(ip) + Len(fp) >= 1
                    /\ Len(fp) <= 1
                    /\ \A i \in 1..Len(ip) : IsDigit(ip[i])
                    /\ \A i \in 1..Len(fp) : IsDigit(fp[i])
      mag == 10 * DigitsToInt(ip) + DigitsToInt(fp)
  IN IF wellFormed
     THEN [ok |-> TRUE, v |-> IF neg THEN -mag ELSE mag]
     ELSE [ok |-> FALSE,
           exc |-> [type |-> "ValueError",
                    msg |-> "could not convert string to float"]]

\* str(x) for a float x: the shortest repr, which always shows a point
FormatFloat(v) ==
  (IF v < 0 THEN <<"-">> ELSE <<>>)
    \o IntToDigits(Abs(v) \div 10) \o <<".">> \o <<Digits[(Abs(v) % 10) + 1]>>


(***************************************************************************)
(* The exchange session (pybit HTTP): every call either raises or returns  *)
(* a response mapping                                                      *)
(***************************************************************************)
Callers == {"c1", "c2"}
\* the caller of the sequential specification
MainCaller == "c1"

Symbols == {"BTCUSDT", "ETHUSDT"}
Categories == {"linear", "inverse"}
Sides == {"Buy", "Sell"}
OrderTypes == {"Market", "Limit"}

SessionExceptions ==
  {[type |-> "FailedRequestError", msg |-> "request failed"],
   [type |-> "InvalidRequestError", msg |-> "invalid request"]}

\* a position entry as the exchange lists it: long, short, a short given
\* with a signed size, flat, one without a size field, one whose size is
\* not a number
PositionShapes ==
  {[side |-> "Buy", size |-> <<"0", ".", "5">>],
   [side |-> "Sell", size |-> <<"2">>],
   [side |-> "Sell", size |-> <<"-", "2">>],
   [side |-> "", size |-> <<"0">>],
   [side |-> "Buy"],
   [side |-> "Buy", size |-> <<>>]}

PositionEntries ==
  {[symbol |-> "BTCUSDT"] @@ sh : sh \in PositionShapes}
    \cup {[symbol |-> "ETHUSDT", side |-> "Buy", size |-> <<"0", ".", "5">>]}

PositionLists ==
  UNION {[1..n -> PositionEntries] : n \in 0..MaxPositions}

Ack == [retCode |-> 0, retMsg |-> "OK"]

\* what session.get_positions can do when the exchange holds the list exch
PositionOutcomes(exch) ==
  {Raise(e) : e \in SessionExceptions}
    \cup {Return(Ack @@ [result |-> [list |-> exch]]),
          Return(Ack @@ [result |-> [category |-> "linear"]]),
          Return(Ack)}

\* what a session call that answers with one acknowledgment can do
AckOutcomes ==
  {Raise(e) : e \in SessionExceptions}
    \cup {Return(Ack @@ [result |-> [orderId |-> "o1"]])}

TickerEntries ==
  {[symbol |-> "BTCUSDT", lastPrice |-> <<"1", ".", "5">>],
   [symbol |-> "BTCUSDT", lastPrice |-> <<"0">>],
   [symbol |-> "BTCUSDT", lastPrice |-> <<>>],
   [symbol |-> "BTCUSDT"]}

TickerOutcomes ==
  {Raise(e) : e \in SessionExceptions}
    \cup {Return(Ack @@ [result |-> [list |-> <<t>>]]) : t \in TickerEntries}
    \cup {Return(Ack @@ [result |-> [list |-> <<>>]]),
          Return(Ack @@ [result |-> [category |-> "linear"]]),
          Return(Ack)}

HistoryOutcomes ==
  {Raise(e) : e \in SessionExceptions}
    \cup {Return(Ack @@ [result |-> [list |-> <<[orderId |-> "o1"]>>]]),
          Return(Ack @@ [result |-> [list |-> <<>>]]),
          Return(Ack)}

(***************************************************************************)
(* BybitClient methods                                                     *)
(***************************************************************************)
\* get_account_info: the response as it is, {} when the session raises
GetAccountInfoResult(out) ==
  IF out.kind = "raise" THEN Return(PyDict(EmptyDict))
  ELSE Return(PyDict(out.val))

\* get_positions without its except clause
GetPositionsResultUncaught(out) ==
  IF out.kind = "raise" THEN out
  ELSE Return(PyList(Get(Get(out.val, "result", EmptyDict), "list", <<>>)))

\* get_positions: response.get('result', {}).get('list', []), [] when the
\* session raises
GetPositionsResult(out) ==
  IF out.kind = "raise" THEN Return(PyList(<<>>))
  ELSE Return(PyList(Get(Get(out.val, "result", EmptyDict), "list", <<>>)))

\* the price field with a default of 0 for a Limit order without a price
PriceFieldDefaulted(a) ==
  IF a.order_type = "Limit"
  THEN [price |-> FormatFloat(IF Truthy(a.price) THEN a.price.v ELSE 0)]
  ELSE EmptyDict

\* if order_type == "Limit" and price: order_params["price"] = str(price)
PriceField(a) ==
  IF a.order_type = "Limit" /\ Truthy(a.price)
  THEN [price |-> FormatFloat(a.price.v)]
  ELSE EmptyDict

\* place_order, up to the session call: the request mapping
PlaceOrderParams(a) ==
  LET base == [category |-> a.category,
               symbol |-> a.symbol,
               side |-> a.side,
               orderType |-> a.order_type,
               qty |-> FormatFloat(a.qty),
               timeInForce |-> a.time_in_force]
      withPrice == base @@ PriceField(a)
      withStop == IF Truthy(a.stop_loss)
                  THEN withPrice @@ [stopLoss |-> FormatFloat(a.stop_loss.v)]
                  ELSE withPrice
  IN IF Truthy(a.take_profit)
     THEN withStop @@ [takeProfit |-> FormatFloat(a.take_profit.v)]
     ELSE withStop

\* place_order without its except clause
PlaceOrderResultUncaught(out) ==
  IF out.kind = "raise" THEN out
  ELSE Return(PyDict(out.val))

\* place_order, from the session call on: the response, or {"error": str(e)}
PlaceOrderResult(out) ==
  IF out.kind = "raise" THEN Return(PyDict([error |-> StrExc(out.exc)]))
  ELSE Return(PyDict(out.val))

NoOpenPosition == PyDict([error |-> "No open position"])

\* next((p for p in positions if p['symbol'] == symbol), None), as an index
\* into positions, 0 for None
FindPosition(positions, symbol) ==
  LET hits == {i \in 1..Len(positions) : positions[i].symbol = symbol}
  IN IF hits = {} THEN 0
     ELSE CHOOSE i \in hits : \A j \in hits : i <= j

\* "Sell" if position['side'] == "Buy" else "Buy"
ClosingSide(held) == IF held = "Buy" THEN "Sell" ELSE "Buy"

\* float(position['size']) without the abs
ClosingQtySigned(size) == size

\* abs(float(position['size'])), given the float
ClosingQty(size) == Abs(size)

\* a size test that never finds zero
IsZeroSizeNever(size) == FALSE

\* float(position.get('size', 0)) == 0, given the float
IsZeroSize(size) == size = 0

\* close_position between its two calls: from the fetched list to a return,
\* a raise, or the place_order call it makes
ClosePositionBody(symbol, category, positions) ==
  LET i == FindPosition(positions, symbol)
      position == positions[i]
      size == IF "size" \in DOMAIN position
              THEN ParseFloat(position.size)
              ELSE [ok |-> TRUE, v |-> 0]
  IN IF i = 0 THEN Return(NoOpenPosition)
     ELSE IF ~size.ok THEN Raise(size.exc)
     ELSE IF IsZeroSize(size.v) THEN Return(NoOpenPosition)
     ELSE [kind |-> "call",
           args |-> [symbol |-> symbol,
                     side |-> ClosingSide(position.side),
                     order_type |-> "Market",
                     qty |-> ClosingQty(size.v),
                     price |-> NoneVal,
                     stop_loss |-> NoneVal,
                     take_profit |-> NoneVal,
                     category |-> category,
                     time_in_force |-> "GTC"]]

\* the except clause of close_position
ClosePositionExcept(r) ==
  IF r.kind = "raise" THEN Return(PyDict([error |-> StrExc(r.exc)]))
  ELSE r

CancelOrderResult(out) ==
  IF out.kind = "raise" THEN Return(PyDict([error |-> StrExc(out.exc)]))
  ELSE Return(PyDict(out.val))

\* float(ticker[0].get('lastPrice', 0)) when the ticker list is not empty
GetTickerPriceResult(out) ==
  IF out.kind = "raise" THEN Return(NoneVal)
  ELSE LET ticker == Get(Get(out.val, "result", EmptyDict), "list", <<>>)
           price == IF "lastPrice" \in DOMAIN ticker[1]
                    THEN ParseFloat(ticker[1].lastPrice)
                    ELSE [ok |-> TRUE, v |-> 0]
       IN IF ticker = <<>> THEN Return(NoneVal)
          ELSE IF ~price.ok THEN Return(NoneVal)
          ELSE Return(PyFloat(price.v))

GetOrderHistoryResult(out) ==
  IF out.kind = "raise" THEN Return(PyList(<<>>))
  ELSE Return(PyList(Get(Get(out.val, "result", EmptyDict), "list", <<>>)))

SetLeverageResult(out) ==
  IF out.kind = "raise" THEN Return(PyDict([error |-> StrExc(out.exc)]))
  ELSE Return(PyDict(out.val))

(***************************************************************************)
(* The exchange: an accepted order moves the net position of its symbol    *)
(***************************************************************************)
ApplyFill(exch, params) ==
  LET i == FindPosition(exch, params.symbol)
      qty == ParseFloat(params.qty).v
      delta == IF params.side = "Buy" THEN qty ELSE -qty
      held == IF "size" \in DOMAIN exch[i]
              THEN ParseFloat(exch[i].size)
              ELSE [ok |-> TRUE, v |-> 0]
      net == (IF exch[i].side = "Sell" THEN -Abs(held.v) ELSE Abs(held.v))
               + delta
      entry(n) == [symbol |-> params.symbol,
                   side |-> IF n > 0 THEN "Buy"
                            ELSE IF n < 0 THEN "Sell" ELSE "",
                   size |-> FormatFloat(Abs(n))]
  IN IF i = 0 THEN Append(exch, entry(delta))
     ELSE IF ~held.ok THEN exch
     ELSE [exch EXCEPT ![i] = entry(net)]

\* number of orders the exchange has accepted
Landed(log) == Cardinality({i \in 1..Len(log) : log[i].accepted})

(***************************************************************************)
(* State: the exchange's position list, and for each caller the call it    *)
(* is in.  positions and req are the locals of the running call.  calls   *)
(* lists the session calls of the running call with their outcomes, snap  *)
(* is the number of landed orders when the position list was read, and    *)
(* sent lists the requests that reached session.place_order.               *)
(***************************************************************************)
VARIABLES exchange, pc, op, positions, req, ret, calls, snap, sent

\* parse_crypto_symbol: the alert text, the stage of the run, the symbol
\* returned for the text and the symbol returned for that symbol
VARIABLES alert_text, stage, symbol1, symbol2

clientVars == <<exchange, pc, op, positions, req, ret, calls, snap, sent>>
parseVars == <<alert_text, stage, symbol1, symbol2>>
vars == <<clientVars, parseVars>>

NoOp == [name |-> "none"]

InitCallers ==
  /\ pc = [c \in Callers |-> "idle"]
  /\ op = [c \in Callers |-> NoOp]
  /\ positions = [c \in Callers |-> <<>>]
  /\ req = [c \in Callers |-> EmptyDict]
  /\ ret = [c \in Callers |-> Pending]
  /\ calls = [c \in Callers |-> <<>>]
  /\ snap = [c \in Callers |-> 0]
  /\ sent = <<>>

\* no alert is being parsed
InitNoAlert ==
  /\ alert_text = <<>>
  /\ stage = "start"
  /\ symbol1 = Pending
  /\ symbol2 = Pending

Init ==
  /\ exchange \in PositionLists
  /\ InitCallers
  /\ InitNoAlert

\* the session call of a call made of one session call, and its return
Finish(c, call, method, out, result) ==
  /\ pc' = [pc EXCEPT ![c] = "done"]
  /\ op' = [op EXCEPT ![c] = call]
  /\ calls' = [calls EXCEPT ![c] = Append(@, [method |-> method, out |-> out])]
  /\ ret' = [ret EXCEPT ![c] = result]
  /\ UNCHANGED <<exchange, positions, req, snap, sent, parseVars>>

GetAccountInfo(c) ==
  /\ pc[c] = "idle"
  /\ \E out \in AckOutcomes :
       Finish(c, [name |-> "get_account_info"], "get_wallet_balance", out,
              GetAccountInfoResult(out))

CancelOrder(c) ==
  /\ pc[c] = "idle"
  /\ \E symbol \in Symbols, out \in AckOutcomes :
       Finish(c, [name |-> "cancel_order", symbol |-> symbol],
              "cancel_order", out, CancelOrderResult(out))

GetTickerPrice(c) ==
  /\ pc[c] = "idle"
  /\ \E symbol \in Symbols, out \in TickerOutcomes :
       Finish(c, [name |-> "get_ticker_price", symbol |-> symbol],
              "get_tickers", out, GetTickerPriceResult(out))

GetOrderHistory(c) ==
  /\ pc[c] = "idle"
  /\ \E out \in HistoryOutcomes :
       Finish(c, [name |-> "get_order_history"], "get_order_history", out,
              GetOrderHistoryResult(out))

SetLeverage(c) ==
  /\ pc[c] = "idle"
  /\ \E symbol \in Symbols, out \in AckOutcomes :
       Finish(c, [name |-> "set_leverage", symbol |-> symbol],
              "set_leverage", out, SetLeverageResult(out))

\* get_positions(category) is entered
GetPositions(c) ==
  /\ pc[c] = "idle"
  /\ \E category \in Categories :
       op' = [op EXCEPT ![c] = [name |-> "get_positions",
                                category |-> category]]
  /\ pc' = [pc EXCEPT ![c] = "get_positions"]
  /\ UNCHANGED <<exchange, positions, req, ret, calls, snap, sent>>
  /\ UNCHANGED parseVars

\* close_position behind a lock: entered only while no other call runs
ClosePositionLocked(c) ==
  /\ pc[c] = "idle"
  /\ \A d \in Callers \ {c} : pc[d] \in {"idle", "done"}
  /\ \E symbol \in Symbols, category \in Categories :
       op' = [op EXCEPT ![c] = [name |-> "close_position",
                                symbol |-> symbol,
                                category |-> category]]
  /\ pc' = [pc EXCEPT ![c] = "get_positions"]
  /\ UNCHANGED <<exchange, positions, req, ret, calls, snap, sent>>
  /\ UNCHANGED parseVars

\* close_position(symbol, category) is entered and calls get_positions
ClosePosition(c) ==
  /\ pc[c] = "idle"
  /\ \E symbol \in Symbols, category \in Categories :
       op' = [op EXCEPT ![c] = [name |-> "close_position",
                                symbol |-> symbol,
                                category |-> category]]
  /\ pc' = [pc EXCEPT ![c] = "get_positions"]
  /\ UNCHANGED <<exchange, positions, req, ret, calls, snap, sent>>
  /\ UNCHANGED parseVars

\* session.get_positions answers; get_positions returns, and close_position
\* runs on to its return or to the session call of its place_order
SessionGetPositions(c) ==
  /\ pc[c] = "get_positions"
  /\ \E out \in PositionOutcomes(exchange) :
       LET got == GetPositionsResult(out)
           body == IF got.kind = "raise" THEN got
                   ELSE ClosePositionBody(op[c].symbol, op[c].category,
                                          got.val.l)
       IN /\ calls' = [calls EXCEPT ![c] =
                         Append(@, [method |-> "get_positions",
                                    out |-> out])]
          /\ snap' = [snap EXCEPT ![c] = Landed(sent)]
          /\ IF op[c].name = "get_positions"
             THEN /\ ret' = [ret EXCEPT ![c] = got]
                  /\ pc' = [pc EXCEPT ![c] = "done"]
                  /\ UNCHANGED <<positions, req>>
             ELSE /\ positions' = [positions EXCEPT ![c] =
                                     IF got.kind = "raise" THEN @
                                     ELSE got.val.l]
                  /\ IF body.kind = "call"
                     THEN /\ req' = [req EXCEPT ![c] =
                                       PlaceOrderParams(body.args)]
                          /\ pc' = [pc EXCEPT ![c] = "place_order"]
                          /\ UNCHANGED ret
                     ELSE /\ ret' = [ret EXCEPT ![c] =
                                       ClosePositionExcept(body)]
                          /\ pc' = [pc EXCEPT ![c] = "done"]
                          /\ UNCHANGED req
  /\ UNCHANGED <<exchange, op, sent, parseVars>>

Quantities == {5}
Prices == {NoneVal, PyFloat(0), PyFloat(15)}
StopLosses == {NoneVal, PyFloat(10)}
TakeProfits == {NoneVal, PyFloat(20)}

\* place_order(...) is entered and builds its request
PlaceOrder(c) ==
  /\ pc[c] = "idle"
  /\ \E symbol \in Symbols, side \in Sides, order_type \in OrderTypes,
        qty \in Quantities, price \in Prices, stop_loss \in StopLosses,
        take_profit \in TakeProfits, category \in Categories :
       LET a == [symbol |-> symbol, side |-> side,
                 order_type |-> order_type, qty |-> qty, price |-> price,
                 stop_loss |-> stop_loss, take_profit |-> take_profit,
                 category |-> category, time_in_force |-> "GTC"]
       IN /\ op' = [op EXCEPT ![c] = [name |-> "place_order", args |-> a]]
          /\ req' = [req EXCEPT ![c] = PlaceOrderParams(a)]
  /\ pc' = [pc EXCEPT ![c] = "place_order"]
  /\ UNCHANGED <<exchange, positions, ret, calls, snap, sent>>
  /\ UNCHANGED parseVars

\* session.place_order answers; place_order returns, and close_position
\* returns what place_order returned
SessionPlaceOrder(c) ==
  /\ pc[c] = "place_order"
  /\ \E out \in AckOutcomes :
       LET placed == PlaceOrderResult(out)
       IN /\ sent' = Append(sent, [caller |-> c, params |-> req[c],
                                   accepted |-> out.kind = "return"])
          /\ exchange' = IF out.kind = "return"
                         THEN ApplyFill(exchange, req[c])
                         ELSE exchange
          /\ calls' = [calls EXCEPT ![c] =
                         Append(@, [method |-> "place_order", out |-> out])]
          /\ ret' = [ret EXCEPT ![c] =
                       IF op[c].name = "close_position"
                       THEN ClosePositionExcept(placed)
                       ELSE placed]
  /\ pc' = [pc EXCEPT ![c] = "done"]
  /\ UNCHANGED <<op, positions, req, snap, parseVars>>

\* one caller makes one call, from any state of the exchange
Next ==
  \/ GetAccountInfo(MainCaller)
  \/ GetPositions(MainCaller)
  \/ PlaceOrder(MainCaller)
  \/ ClosePosition(MainCaller)
  \/ SessionGetPositions(MainCaller)
  \/ SessionPlaceOrder(MainCaller)
  \/ CancelOrder(MainCaller)
  \/ GetTickerPrice(MainCaller)
  \/ GetOrderHistory(MainCaller)
  \/ SetLeverage(MainCaller)

Spec == Init /\ [][Next]_vars

\* two callers close positions at the same time
RaceExchanges == {<<>>} \cup {<<e>> : e \in PositionEntries}

InitRace ==
  /\ exchange \in RaceExchanges
  /\ InitCallers
  /\ InitNoAlert

NextRace ==
  \E c \in Callers :
    \/ ClosePosition(c)
    \/ SessionGetPositions(c)
    \/ SessionPlaceOrder(c)

SpecRace == InitRace /\ [][NextRace]_vars

TypeOK ==
  /\ \A c \in Callers :
       /\ pc[c] \in {"idle", "get_positions", "place_order", "done"}
       /\ ret[c].kind \in {"pending", "return", "raise"}
       /\ pc[c] = "done" <=> ret[c].kind # "pending"

(***************************************************************************)
(* parse_crypto_symbol: re.search with re.IGNORECASE over two patterns     *)
(***************************************************************************)
PyStr(s) == [ty |-> "str", s |-> s]

UpperLetters == <<"A", "B", "C", "D", "E", "F", "G", "H", "I", "J", "K",
                  "L", "M", "N", "O", "P", "Q", "R", "S", "T", "U", "V",
                  "W", "X", "Y", "Z">>
LowerLetters == <<"a", "b", "c", "d", "e", "f", "g", "h", "i", "j", "k",
                  "l", "m", "n", "o", "p", "q", "r", "s", "t", "u", "v",
                  "w", "x", "y", "z">>

IsLower(ch) == \E i \in 1..26 : LowerLetters[i] = ch
IsUpper(ch) == \E i \in 1..26 : UpperLetters[i] = ch

\* one character of str.upper()
UpperChar(ch) ==
  IF IsLower(ch) THEN UpperLetters[CHOOSE i \in 1..26 : LowerLetters[i] = ch]
  ELSE ch

\* one character of str.lower()
LowerChar(ch) ==
  IF IsUpper(ch) THEN LowerLetters[CHOOSE i \in 1..26 : UpperLetters[i] = ch]
  ELSE ch

\* str.upper()
StrUpper(s) == [i \in 1..Len(s) |-> UpperChar(s[i])]

\* two characters match under re.IGNORECASE
EqIgnoreCase(a, b) == LowerChar(a) = LowerChar(b)

\* \w
IsWordChar(ch) == IsLower(ch) \/ IsUpper(ch) \/ IsDigit(ch) \/ ch = "_"

\* \b at position i, the gap before text[i], i in 1..Len(text)+1
AtBoundary(text, i) ==
  LET before == i > 1 /\ i - 1 <= Len(text) /\ IsWordChar(text[i - 1])
      after == i >= 1 /\ i <= Len(text) /\ IsWordChar(text[i])
  IN before # after

\* the literal lit matches text from position i on
MatchLiteral(lit, text, i) ==
  /\ i + Len(lit) - 1 <= Len(text)
  /\ \A k \in 1..Len(lit) : EqIgnoreCase(text[i + k - 1], lit[k])

\* the alternation (BTC|ETH|SOL|DOGE|XRP|ADA|MATIC|AVAX|DOT|LINK), in order
BaseAssets ==
  <<<<"B", "T", "C">>, <<"E", "T", "H">>, <<"S", "O", "L">>,
    <<"D", "O", "G", "E">>, <<"X", "R", "P">>, <<"A", "D", "A">>,
    <<"M", "A", "T", "I", "C">>, <<"A", "V", "A", "X">>,
    <<"D", "O", "T">>, <<"L", "I", "N", "K">>>>

\* USDT?\b from position j on: the T is tried first, then left out
QuoteAt(text, j) ==
  /\ MatchLiteral(<<"U", "S", "D">>, text, j)
  /\ \/ MatchLiteral(<<"T">>, text, j + 3) /\ AtBoundary(text, j + 4)
     \/ AtBoundary(text, j + 3)

\* [/\-]USDT?\b from position j on: the separator is not optional
QuotedTailSeparated(text, j) ==
  /\ j <= Len(text)
  /\ text[j] \in {"/", "-"}
  /\ QuoteAt(text, j + 1)

\* [/\-]?USDT?\b from position j on: the separator is tried first, then
\* left out
QuotedTail(text, j) ==
  \/ /\ j <= Len(text)
     /\ text[j] \in {"/", "-"}
     /\ QuoteAt(text, j + 1)
  \/ QuoteAt(text, j)

\* the two patterns with the bare one first
PatternsBareFirst == <<"bare", "quoted">>

\* the two patterns, in the order of the list
Patterns == <<"quoted", "bare">>

\* what follows the group in the pattern, from position j on
PatternTail(pattern, text, j) ==
  IF pattern = "quoted" THEN QuotedTail(text, j) ELSE AtBoundary(text, j)

\* the pattern matches at position i with alternative k of the group
MatchesWith(pattern, text, i, k) ==
  /\ AtBoundary(text, i)
  /\ MatchLiteral(BaseAssets[k], text, i)
  /\ PatternTail(pattern, text, i + Len(BaseAssets[k]))

\* the first alternative from k on with which the pattern matches at
\* position i, 0 when there is none
RECURSIVE MatchAt(_, _, _, _)
MatchAt(pattern, text, i, k) ==
  IF k > Len(BaseAssets) THEN 0
  ELSE IF MatchesWith(pattern, text, i, k) THEN k
  ELSE MatchAt(pattern, text, i, k + 1)

\* re.search(pattern, text, re.IGNORECASE) from position i on: group(1) of
\* the leftmost match, or no match
RECURSIVE Search(_, _, _)
Search(pattern, text, i) ==
  IF i > Len(text) + 1 THEN [found |-> FALSE]
  ELSE LET k == MatchAt(pattern, text, i, 1)
       IN IF k # 0
          THEN [found |-> TRUE,
                group |-> SubSeq(text, i, i + Len(BaseAssets[k]) - 1)]
          ELSE Search(pattern, text, i + 1)

\* a suffix that keeps the T off
SuffixUsd == <<"U", "S", "D">>

\* the quote asset every returned symbol ends with
Suffix == <<"U", "S", "D", "T">>

\* the loop over the patterns from pattern n on
RECURSIVE TryPatterns(_, _)
TryPatterns(text, n) ==
  IF n > Len(Patterns) THEN NoneVal
  ELSE LET match == Search(Patterns[n], text, 1)
       IN IF match.found THEN PyStr(StrUpper(match.group) \o Suffix)
          ELSE TryPatterns(text, n + 1)

ParseCryptoSymbolOf(text) == TryPatterns(text, 1)

(***************************************************************************)
(* Alert texts                                                             *)
(***************************************************************************)
\* every spelling of the word s in upper and lower case letters
CaseVariants(s) ==
  {[i \in 1..Len(s) |-> IF m[i] THEN s[i] ELSE LowerChar(s[i])] :
     m \in [1..Len(s) -> BOOLEAN]}

\* a base asset in any letter case, alone or with USDT or -USD behind it
AssetTexts ==
  UNION {{v \o q : v \in CaseVariants(BaseAssets[k]),
                   q \in {<<>>, <<"U", "S", "D", "T">>,
                          <<"-", "U", "S", "D">>}} :
           k \in 1..Len(BaseAssets)}

\* the pieces longer texts are assembled from
Pieces ==
  {<<"B", "T", "C">>, <<"e", "t", "h">>, <<"U", "S", "D", "T">>,
   <<"u", "s", "d">>, <<"/">>, <<"-">>, <<" ">>, <<"X">>,
   <<"e", "t", "h", "U", "S", "D", "T">>}

RECURSIVE Concat(_)
Concat(ps) == IF ps = <<>> THEN <<>> ELSE Head(ps) \o Concat(Tail(ps))

PieceTexts ==
  UNION {{Concat(ps) : ps \in [1..n -> Pieces]} : n \in 0..MaxPieces}

AlertTexts == AssetTexts \cup PieceTexts

InitParse ==
  /\ alert_text \in AlertTexts
  /\ stage = "start"
  /\ symbol1 = Pending
  /\ symbol2 = Pending
  /\ exchange = <<>>
  /\ InitCallers

\* parse_crypto_symbol(alert_text)
ParseCryptoSymbol ==
  /\ stage = "start"
  /\ symbol1' = Return(ParseCryptoSymbolOf(alert_text))
  /\ stage' = "parsed"
  /\ UNCHANGED <<alert_text, symbol2>>
  /\ UNCHANGED clientVars

\* parse_crypto_symbol on the symbol it returned
ParseSymbolAgain ==
  /\ stage = "parsed"
  /\ symbol1.val # NoneVal
  /\ symbol2' = Return(ParseCryptoSymbolOf(symbol1.val.s))
  /\ stage' = "reparsed"
  /\ UNCHANGED <<alert_text, symbol1>>
  /\ UNCHANGED clientVars

NextParse == ParseCryptoSymbol \/ ParseSymbolAgain

SpecParse == InitParse /\ [][NextParse]_vars

(***************************************************************************)
(* Properties of the client                                                *)
(***************************************************************************)
IsErrorDict(v) == v.ty = "dict" /\ "error" \in DOMAIN v.d

\* the session raised during the call that caller c has finished
SessionRaised(c) ==
  \E i \in 1..Len(calls[c]) : calls[c][i].out.kind = "raise"

\* the requests of caller c that reached session.place_order
SentBy(c) == {i \in 1..Len(sent) : sent[i].caller = c}

Closed(c) == pc[c] = "done" /\ op[c].name = "close_position"

\* the list entry close_position looks at has a size that is a number
\* other than zero
HeldNonzero(entry) ==
  /\ "size" \in DOMAIN entry
  /\ ParseFloat(entry.size).ok
  /\ ParseFloat(entry.size).v # 0

HeldZero(entry) ==
  /\ "size" \in DOMAIN entry
  /\ ParseFloat(entry.size).ok
  /\ ParseFloat(entry.size).v = 0

\* the request closes the held entry: Market, same symbol and category,
\* opposite side, quantity the absolute value of the held size
ClosesEntry(params, entry, symbol, category) ==
  /\ params.orderType = "Market"
  /\ params.symbol = symbol
  /\ params.category = category
  /\ entry.side = "Buy" => params.side = "Sell"
  /\ entry.side = "Sell" => params.side = "Buy"
  /\ ParseFloat(params.qty).ok
  /\ ParseFloat(params.qty).v = Abs(ParseFloat(entry.size).v)

\* C1: no public operation raises to its caller; each returns a value of
\* its documented shape, and its documented failure value whenever the
\* session raised during the call: {} for get_account_info, [] for
\* get_positions and get_order_history, None for get_ticker_price, a
\* mapping with an "error" key for place_order, close_position,
\* cancel_order and set_leverage.
C1_FailSoft ==
  \A c \in Callers :
    pc[c] = "done" =>
      /\ ret[c].kind = "return"
      /\ op[c].name = "get_account_info" =>
           /\ ret[c].val.ty = "dict"
           /\ SessionRaised(c) => ret[c].val.d = EmptyDict
      /\ op[c].name \in {"get_positions", "get_order_history"} =>
           /\ ret[c].val.ty = "list"
           /\ SessionRaised(c) => ret[c].val.l = <<>>
      /\ op[c].name = "get_ticker_price" =>
           /\ ret[c].val.ty \in {"None", "float"}
           /\ SessionRaised(c) => ret[c].val = NoneVal
      /\ op[c].name \in {"place_order", "close_position", "cancel_order",
                         "set_leverage"} =>
           /\ ret[c].val.ty = "dict"
           /\ SessionRaised(c) => IsErrorDict(ret[c].val)

\* session.place_order raised and place_order returned the error mapping
C1_Witness ==
  /\ pc[MainCaller] = "done"
  /\ op[MainCaller].name = "place_order"
  /\ calls[MainCaller][1].out.kind = "raise"
  /\ ret[MainCaller] = Return(PyDict([error |-> "request failed"]))

\* C2: close_position(symbol) whose fetched list is empty, has no entry for
\* the symbol, or whose entry for the symbol has size zero returns exactly
\* {"error": "No open position"} and sends no order to the session.
C2_NoPositionNoOrder ==
  \A c \in Callers :
    Closed(c) =>
      LET i == FindPosition(positions[c], op[c].symbol)
      IN (\/ positions[c] = <<>>
          \/ i = 0
          \/ HeldZero(positions[c][i]))
         => /\ ret[c] = Return(PyDict([error |-> "No open position"]))
            /\ SentBy(c) = {}

\* the session answered with a list whose entry for the symbol has size "0"
C2_Witness ==
  /\ Closed(MainCaller)
  /\ calls[MainCaller][1].out.kind = "return"
  /\ LET i == FindPosition(positions[MainCaller], op[MainCaller].symbol)
     IN i # 0 /\ HeldZero(positions[MainCaller][i])
  /\ ret[MainCaller] = Return(NoOpenPosition)
  /\ sent = <<>>

\* the order of caller c closes entry and its result is what c returned
ClosedWithOneOrder(c, entry) ==
  /\ Cardinality(SentBy(c)) = 1
  /\ \A i \in SentBy(c) :
       ClosesEntry(sent[i].params, entry, op[c].symbol, op[c].category)
  /\ Len(calls[c]) = 2
  /\ calls[c][2].method = "place_order"
  /\ ret[c] = PlaceOrderResult(calls[c][2].out)

\* C3, as stated: whenever the fetched list holds an entry for the symbol
\* with nonzero size, close_position submits exactly one order, a Market
\* order for the same symbol and category on the opposite side for the
\* absolute held size, and returns the result of place_order unchanged.
C3_AnyNonzeroEntryIsClosed ==
  \A c \in Callers :
    Closed(c) =>
      LET held == {i \in 1..Len(positions[c]) :
                     /\ positions[c][i].symbol = op[c].symbol
                     /\ HeldNonzero(positions[c][i])}
      IN held # {} =>
           \E i \in held : ClosedWithOneOrder(c, positions[c][i])

\* C3, amended: whenever the first entry for the symbol in the fetched list
\* has nonzero size, close_position submits exactly one order, a Market
\* order for the same symbol and category on the opposite side for the
\* absolute held size, and returns the result of place_order unchanged.
C3_FirstNonzeroEntryIsClosed ==
  \A c \in Callers :
    Closed(c) =>
      LET i == FindPosition(positions[c], op[c].symbol)
      IN (i # 0 /\ HeldNonzero(positions[c][i]))
           => ClosedWithOneOrder(c, positions[c][i])

\* a short held with a signed size was closed by a Buy that was accepted
C3_Witness ==
  /\ Closed(MainCaller)
  /\ LET i == FindPosition(positions[MainCaller], op[MainCaller].symbol)
     IN /\ i # 0
        /\ positions[MainCaller][i].side = "Sell"
        /\ positions[MainCaller][i].size = <<"-", "2">>
  /\ Len(sent) = 1
  /\ sent[1].params.side = "Buy"
  /\ sent[1].params.qty = <<"2", ".", "0">>
  /\ sent[1].accepted
  /\ ~IsErrorDict(ret[MainCaller].val)

\* C4: place_order never fabricates a price.  A request that reached the
\* session has a price field only when the order type is Limit and the
\* caller supplied a price, and then the field carries that price; a Limit
\* order without a price is sent without a price field.
C4_NoFabricatedPrice ==
  \A i \in 1..Len(sent) :
    LET c == sent[i].caller
        params == sent[i].params
    IN IF op[c].name = "place_order"
       THEN /\ "price" \in DOMAIN params =>
                 /\ op[c].args.order_type = "Limit"
                 /\ op[c].args.price # NoneVal
                 /\ ParseFloat(params.price).ok
                 /\ ParseFloat(params.price).v = op[c].args.price.v
            /\ (op[c].args.order_type = "Limit"
                  /\ op[c].args.price = NoneVal)
                 => "price" \notin DOMAIN params
       ELSE "price" \notin DOMAIN params

\* a Limit order without a price reached the session
C4_Witness ==
  /\ pc[MainCaller] = "done"
  /\ op[MainCaller].name = "place_order"
  /\ op[MainCaller].args.order_type = "Limit"
  /\ op[MainCaller].args.price = NoneVal
  /\ Len(sent) = 1
  /\ "price" \notin DOMAIN sent[1].params

\* the last traded price of a ticker response, when it provides one
LastPrice(out) ==
  LET ticker == Get(Get(out.val, "result", EmptyDict), "list", <<>>)
  IN IF /\ out.kind = "return"
        /\ ticker # <<>>
        /\ "lastPrice" \in DOMAIN ticker[1]
        /\ ParseFloat(ticker[1].lastPrice).ok
     THEN PyFloat(ParseFloat(ticker[1].lastPrice).v)
     ELSE NoneVal

\* C5: get_ticker_price returns the last traded price when the response
\* provides one, and None whenever it does not: the session raised, the
\* ticker list is empty or missing, or the entry has no lastPrice field.
C5_PriceOrNothing ==
  \A c \in Callers :
    (pc[c] = "done" /\ op[c].name = "get_ticker_price")
      => ret[c] = Return(LastPrice(calls[c][1].out))

\* C9: close_position takes no lock between reading the positions and
\* submitting the order.  A caller can enter close_position whatever the
\* other caller is doing, and two callers that both read a nonzero
\* position for the same symbol before any order landed both submit a
\* closing Market order for the full held size.
C9_BothCallersClose ==
  \A c1, c2 \in Callers :
    c1 # c2 =>
      /\ pc[c2] = "idle" => ENABLED ClosePosition(c2)
      /\ (/\ Closed(c1) /\ Closed(c2)
          /\ op[c1].symbol = op[c2].symbol
          /\ snap[c1] = 0 /\ snap[c2] = 0
          /\ LET i == FindPosition(positions[c1], op[c1].symbol)
             IN i # 0 /\ HeldNonzero(positions[c1][i])
          /\ positions[c2] = positions[c1])
         => LET i == FindPosition(positions[c1], op[c1].symbol)
            IN /\ Len(sent) = 2
               /\ ClosedWithOneOrder(c1, positions[c1][i])
               /\ ClosedWithOneOrder(c2, positions[c1][i])

\* both callers read the long position of 0.5 before either order landed,
\* both Sell orders of 0.5 were accepted, and the position is now short
C9_Witness ==
  /\ Closed("c1") /\ Closed("c2")
  /\ op["c1"].symbol = "BTCUSDT" /\ op["c2"].symbol = "BTCUSDT"
  /\ snap["c1"] = 0 /\ snap["c2"] = 0
  /\ positions["c1"] = <<[symbol |-> "BTCUSDT", side |-> "Buy",
                          size |-> <<"0", ".", "5">>]>>
  /\ positions["c2"] = positions["c1"]
  /\ Len(sent) = 2
  /\ \A i \in 1..2 :
       /\ sent[i].accepted
       /\ sent[i].params.side = "Sell"
       /\ sent[i].params.orderType = "Market"
       /\ sent[i].params.qty = <<"0", ".", "5">>
  /\ sent[1].caller # sent[2].caller
  /\ exchange = <<[symbol |-> "BTCUSDT", side |-> "Sell",
                   size |-> <<"0", ".", "5">>]>>

\* C10: close_position sends an order only after the position query of
\* the same call returned a list whose entry for the symbol has nonzero
\* size; when the query raises it sends no order, does not query again
\* and returns {"error": "No open position"}.
C10_OrderOnlyAfterQuery ==
  \A c \in Callers :
    op[c].name = "close_position" =>
      /\ (pc[c] = "place_order" \/ SentBy(c) # {}) =>
           /\ calls[c][1].method = "get_positions"
           /\ calls[c][1].out.kind = "return"
           /\ LET l == calls[c][1].out.val.result.list
                  i == FindPosition(l, op[c].symbol)
              IN i # 0 /\ HeldNonzero(l[i])
      /\ (Closed(c) /\ calls[c][1].out.kind = "raise") =>
           /\ SentBy(c) = {}
           /\ Len(calls[c]) = 1
           /\ ret[c] = Return(PyDict([error |-> "No open position"]))

\* the position query raised and the call returned "No open position"
C10_Witness ==
  /\ Closed(MainCaller)
  /\ calls[MainCaller][1].out.kind = "raise"
  /\ ret[MainCaller] = Return(NoOpenPosition)
  /\ sent = <<>>

(***************************************************************************)
(* Properties of parse_crypto_symbol                                       *)
(***************************************************************************)
\* base asset k stands in the text at position i, in any letter case, with
\* a word boundary before it
TokenAt(text, i, k) ==
  /\ i + Len(BaseAssets[k]) - 1 <= Len(text)
  /\ StrUpper(SubSeq(text, i, i + Len(BaseAssets[k]) - 1)) = BaseAssets[k]
  /\ (i = 1 \/ ~IsWordChar(text[i - 1]))

\* the word ends at position j - 1
EndsBefore(text, j) == j > Len(text) \/ ~IsWordChar(text[j])

\* base asset k stands in the text at position i as a whole word
WholeWordAt(text, i, k) ==
  TokenAt(text, i, k) /\ EndsBefore(text, i + Len(BaseAssets[k]))

\* base asset k stands in the text at position i and a quote asset from
\* quotes follows it, after a separator or directly, and ends a word
QuotedAt(text, i, k, quotes) ==
  /\ TokenAt(text, i, k)
  /\ \E sep \in {<<>>, <<"/">>, <<"-">>}, q \in quotes :
       LET j == i + Len(BaseAssets[k])
           n == Len(sep) + Len(q)
       IN /\ j + n - 1 <= Len(text)
          /\ SubSeq(text, j, j + Len(sep) - 1) = sep
          /\ StrUpper(SubSeq(text, j + Len(sep), j + n - 1)) = q
          /\ EndsBefore(text, j + n)
          /\ n > 0 => IsWordChar(text[j + n - 1])

QuoteAssets == {<<"U", "S", "D", "T">>, <<"U", "S", "D">>}

HasWholeWordToken(text) ==
  \E i \in 1..Len(text), k \in 1..Len(BaseAssets) : WholeWordAt(text, i, k)

HasQuotedToken(text) ==
  \E i \in 1..Len(text), k \in 1..Len(BaseAssets) :
    QuotedAt(text, i, k, QuoteAssets)

\* the three spellings of base asset k all give its upper-case name + USDT
SpellingsAgree(text, result) ==
  \A k \in 1..Len(BaseAssets) :
    LET n == Len(BaseAssets[k])
    IN (/\ Len(text) >= n
        /\ StrUpper(SubSeq(text, 1, n)) = BaseAssets[k]
        /\ SubSeq(text, n + 1, Len(text))
             \in {<<>>, <<"U", "S", "D", "T">>, <<"-", "U", "S", "D">>})
       => result = Return(PyStr(BaseAssets[k] \o <<"U", "S", "D", "T">>))

\* C6, as stated: for every base asset B in any letter case, B, B + "USDT"
\* and B + "-USD" all give uppercase(B) + "USDT"; and a text with no
\* whole-word base-asset token gives None.
C6_NoWholeWordNoSymbol ==
  stage # "start" =>
    /\ SpellingsAgree(alert_text, symbol1)
    /\ ~HasWholeWordToken(alert_text) => symbol1 = Return(NoneVal)

\* C6, amended: for every base asset B in any letter case, B, B + "USDT"
\* and B + "-USD" all give uppercase(B) + "USDT"; and a text gives None
\* when it has neither a whole-word base-asset token nor a base-asset
\* token that starts a word and is directly followed by USD or USDT
\* ending that word.
C6_SpellingsAndNone ==
  stage # "start" =>
    /\ SpellingsAgree(alert_text, symbol1)
    /\ (~HasWholeWordToken(alert_text) /\ ~HasQuotedToken(alert_text))
         => symbol1 = Return(NoneVal)

\* "mAtIc-USD" was parsed to MATICUSDT
C6_Witness ==
  /\ stage = "parsed"
  /\ alert_text = <<"m", "A", "t", "I", "c", "-", "U", "S", "D">>
  /\ symbol1 = Return(PyStr(<<"M", "A", "T", "I", "C", "U", "S", "D", "T">>))

\* C7: every symbol parse_crypto_symbol returns is a fixed point:
\* parsing the returned symbol returns the same symbol.
C7_Idempotent ==
  stage = "reparsed" => symbol2 = symbol1

\* "eth/usd" gave ETHUSDT, and ETHUSDT gave ETHUSDT again
C7_Witness ==
  /\ stage = "reparsed"
  /\ alert_text = <<"e", "t", "h", "/", "u", "s", "d">>
  /\ symbol1 = Return(PyStr(<<"E", "T", "H", "U", "S", "D", "T">>))
  /\ symbol2 = symbol1

\* the symbol built from the leftmost place where a base asset stands as
\* a whole word or with one of the quote assets behind it, None when there
\* is no such place
LeftmostSymbol(text, quotes, bare) ==
  LET hits == {i \in 1..Len(text) :
                 \E k \in 1..Len(BaseAssets) :
                   \/ QuotedAt(text, i, k, quotes)
                   \/ bare /\ WholeWordAt(text, i, k)}
  IN IF hits = {} THEN NoneVal
     ELSE LET i == CHOOSE h \in hits : \A g \in hits : h <= g
              k == CHOOSE b \in 1..Len(BaseAssets) : TokenAt(text, i, b)
          IN PyStr(BaseAssets[k] \o <<"U", "S", "D", "T">>)

\* C8, as stated: pattern 1 matches a whole-word base-asset token with an
\* optional separator and an optional quote asset, so also a bare token,
\* pattern 2 the bare token; the symbol is built from the leftmost match
\* of the first pattern that matches.
C8_OptionalQuoteLeftmost ==
  stage # "start" =>
    LET first == LeftmostSymbol(alert_text, QuoteAssets \cup {<<>>}, TRUE)
        second == LeftmostSymbol(alert_text, {}, TRUE)
    IN symbol1 = Return(IF first # NoneVal THEN first ELSE second)

\* C8, amended: pattern 1 matches a base-asset token that starts a word
\* and is followed by an optional separator and a required quote asset
\* (USD or USDT) ending a word, so it does not match a bare token;
\* pattern 2 matches the bare whole-word token; the symbol is built from
\* the leftmost match of the first pattern that matches.
C8_RequiredQuoteLeftmost ==
  stage # "start" =>
    LET first == LeftmostSymbol(alert_text, QuoteAssets, FALSE)
        second == LeftmostSymbol(alert_text, {}, TRUE)
    IN symbol1 = Return(IF first # NoneVal THEN first ELSE second)

\* "BTC ethUSDT" names BTC bare and ETH with a quote asset, and gave ETHUSDT
C8_Witness ==
  /\ stage = "parsed"
  /\ alert_text = <<"B", "T", "C", " ", "e", "t", "h", "U", "S", "D", "T">>
  /\ symbol1 = Return(PyStr(<<"E", "T", "H", "U", "S", "D", "T">>))

====
